---- MODULE Spec2Model ----
(***************************************************************************)
(* A model of pycox/models/cox.py: the time-index search, the Breslow      *)
(* baseline hazard, the cumulative hazard cache of a CoxPH model object,   *)
(* its predictions, its persistence and the partial log-likelihood.        *)
(*                                                                         *)
(* Numbers.  A float is modelled by an exact value: a reduced fraction     *)
(* [k |-> "fin", n, d], or the IEEE specials [k |-> "inf"] and             *)
(* [k |-> "nan"] that numpy/pandas produce on a division by zero.          *)
(* A risk score g is an integer multiple of ln 2, so that exp(g) = 2^g,    *)
(* or the score Underflow, so negative that exp(g) is 0.0 in floating      *)
(* point.                                                                  *)
(***************************************************************************)
EXTENDS Integers, Sequences, FiniteSets, TLC

VARIABLES
    sq,                             \* search_sorted_idx: the arguments of the call
    sres,                           \* search_sorted_idx: the outcome of the call
    cohort,                         \* hazard/likelihood: the cohort (duration, event, g)
    hres,                           \* hazard/likelihood: the outcome of the call
    baseline_hazards_,              \* CoxBase.baseline_hazards_ (NoAttr when not set)
    baseline_cumulative_hazards_,   \* CoxBase.baseline_cumulative_hazards_
    files,                          \* the file system: file name -> content
    ret                             \* model object: the last call and its outcome

vars == <<sq, sres, cohort, hres, baseline_hazards_, baseline_cumulative_hazards_, files, ret>>

(***************************************************************************)
(* Bounds of the model.                                                    *)
(***************************************************************************)
MaxTime == 5        \* entries of a time axis are drawn from 1..MaxTime
MaxLen == 3         \* longest time axis given to search_sorted_idx
MaxQueries == 2     \* longest query vector given to search_sorted_idx
MaxCohort == 3      \* most subjects in a cohort
MaxDuration == 3    \* durations are drawn from 1..MaxDuration
MaxSeriesLen == 3   \* most rows of a baseline hazard series a caller passes

(***************************************************************************)
(* Generic helpers.                                                        *)
(***************************************************************************)
SeqsUpTo(S, n) == UNION {[1..k -> S] : k \in 0..n}

Abs(x) == IF x < 0 THEN -x ELSE x

RECURSIVE Gcd(_, _)
Gcd(a, b) == IF b = 0 THEN a ELSE Gcd(b, a % b)

IsSorted(s) == \A i \in 1..(Len(s) - 1) : s[i] <= s[i + 1]

IsStrictlySorted(s) == \A i \in 1..(Len(s) - 1) : s[i] < s[i + 1]

(***************************************************************************)
(* search_sorted_idx(array, values), cox.py lines 10-22.  Indices are the  *)
(* 0-based indices of the code.                                            *)
(***************************************************************************)

\* np.searchsorted(array, v) (side='left'): the number of entries < v.
NpSearchSorted(array, v) == Cardinality({i \in DOMAIN array : array[i] < v})

\* line 16: idx[idx == n] = n-1
ClampHigh(n, i) == IF i = n THEN n - 1 ELSE i

\* array[idx] with numpy's index rules: -n <= idx < n, negative from the end.
NpIndexOk(array, i) == -Len(array) <= i /\ i < Len(array)
NpGet(array, i) == IF i < 0 THEN array[Len(array) + i + 1] ELSE array[i + 1]

\* lines 17-18: not_exact = values != array[idx]; idx -= not_exact
StepLeftNever(array, v, i) == i
StepLeft(array, v, i) == IF v # NpGet(array, i) THEN i - 1 ELSE i

\* the index of one query before the negative ones are reset (lines 15-18)
RawIdx(array, v) == StepLeft(array, v, ClampHigh(Len(array), NpSearchSorted(array, v)))

\* lines 19-22: warn and reset the negative indices
ResetNegative(raw) ==
    [status |-> "ok",
     warned |-> \E k \in DOMAIN raw : raw[k] < 0,
     idx    |-> [k \in DOMAIN raw |-> IF raw[k] < 0 THEN 0 ELSE raw[k]]]

\* lines 14-22, the whole call
search_sorted_idx(array, values) ==
    IF \E k \in DOMAIN values :
           ~NpIndexOk(array, ClampHigh(Len(array), NpSearchSorted(array, values[k])))
    THEN [status |-> "IndexError", warned |-> FALSE, idx |-> <<>>]
    ELSE ResetNegative([k \in DOMAIN values |-> RawIdx(array, values[k])])

\* The sorted axes of distinct times, and the query vectors.
TimeAxes == {a \in SeqsUpTo(1..MaxTime, MaxLen) : IsStrictlySorted(a)}
QueryVectors == SeqsUpTo(0..(MaxTime + 1), MaxQueries) \ {<<>>}

(***************************************************************************)
(* Floats as exact values.                                                 *)
(***************************************************************************)
Fin(n, d) ==
    LET g == Gcd(Abs(n), Abs(d))
        sgn == IF d < 0 THEN -1 ELSE 1
    IN  [k |-> "fin", n |-> sgn * (n \div g), d |-> sgn * (d \div g)]

Inf == [k |-> "inf"]
NaN == [k |-> "nan"]
Zero == Fin(0, 1)

\* float division of two non-negative numbers as pandas does it: x/0 is inf, 0/0 is NaN
PdDiv(a, b) ==
    IF b # 0 THEN Fin(a, b)
    ELSE IF a = 0 THEN NaN ELSE Inf

\* float addition (no -inf arises: divisors and dividends are never negative)
VAdd(x, y) ==
    IF x.k = "nan" \/ y.k = "nan" THEN NaN
    ELSE IF x.k = "inf" \/ y.k = "inf" THEN Inf
    ELSE Fin(x.n * y.d + y.n * x.d, x.d * y.d)

\* float subtraction x - y
VSub(x, y) ==
    IF x.k = "nan" \/ y.k = "nan" THEN NaN
    ELSE IF x.k = "inf" /\ y.k = "inf" THEN NaN
    ELSE IF x.k = "inf" THEN Inf
    ELSE IF y.k = "inf" THEN [k |-> "-inf"]
    ELSE Fin(x.n * y.d - y.n * x.d, x.d * y.d)

\* float product of a value and a non-negative integer weight
VMulInt(x, m) ==
    IF x.k = "nan" THEN NaN
    ELSE IF x.k = "inf" THEN (IF m = 0 THEN NaN ELSE Inf)
    ELSE Fin(x.n * m, x.d)

\* x <= y on floats (false when either is NaN)
VLe(x, y) ==
    IF x.k = "nan" \/ y.k = "nan" THEN FALSE
    ELSE IF y.k = "inf" THEN TRUE
    ELSE IF x.k = "inf" THEN FALSE
    ELSE x.n * y.d <= y.n * x.d

\* np.exp of a risk score: 2^g, and 0.0 once the score underflows
Underflow == -1100
RECURSIVE Pow2(_)
Pow2(g) == IF g <= 0 THEN 1 ELSE 2 * Pow2(g - 1)
NpExp(g) == IF g = Underflow THEN 0 ELSE Pow2(g)

(***************************************************************************)
(* Optional arguments and attributes.                                      *)
(***************************************************************************)
None == <<>>                    \* an optional number: None, or <<x>>
Some(x) == <<x>>
NoAttr == [absent |-> TRUE]     \* hasattr(self, ...) is False

\* A pandas Series: its index and its values, in row order.
Series(index, vals) == [index |-> index, vals |-> vals]
EmptySeries == Series(<<>>, <<>>)

RECURSIVE SortAsc(_)
SortAsc(S) ==
    IF S = {} THEN <<>>
    ELSE LET m == CHOOSE x \in S : \A y \in S : x <= y
         IN  <<m>> \o SortAsc(S \ {m})

Reverse(s) == [i \in DOMAIN s |-> s[Len(s) + 1 - i]]

RECURSIVE SumOver(_, _)
SumOver(f, S) ==
    IF S = {} THEN 0
    ELSE LET i == CHOOSE x \in S : TRUE
         IN  f[i] + SumOver(f, S \ {i})

\* Series.cumsum() on integers: the running sum, row by row
RECURSIVE IntCumsum(_)
IntCumsum(s) ==
    IF s = <<>> THEN <<>>
    ELSE LET front == IntCumsum(SubSeq(s, 1, Len(s) - 1))
         IN  Append(front, (IF front = <<>> THEN 0 ELSE front[Len(front)]) + s[Len(s)])

(***************************************************************************)
(* CoxPHBase._compute_baseline_hazards, cox.py lines 385-411.              *)
(* A cohort is a sequence of rows [duration, event, g]: df_target joined   *)
(* with the scores self.predict(input) returns for its rows.               *)
(***************************************************************************)

\* lines 402-404: .assign(expg=...).groupby(duration).agg(sum): one row per
\* distinct duration, ascending
GroupByDuration(c) ==
    LET keys == SortAsc({c[i].duration : i \in DOMAIN c})
    IN  [j \in DOMAIN keys |->
            LET rows == {i \in DOMAIN c : c[i].duration = keys[j]}
            IN  [duration |-> keys[j],
                 expg  |-> SumOver([i \in DOMAIN c |-> NpExp(c[i].g)], rows),
                 event |-> SumOver([i \in DOMAIN c |-> c[i].event], rows)]]

\* line 406: .assign(expg=lambda x: x['expg'].cumsum()) on the descending frame
RiskSetNoCumsum(desc) == desc
RiskSetCumsum(desc) ==
    LET cum == IntCumsum([j \in DOMAIN desc |-> desc[j].expg])
    IN  [j \in DOMAIN desc |-> [desc[j] EXCEPT !.expg = cum[j]]]

\* line 408: .fillna(0.)
Fillna0(x) == IF x.k = "nan" THEN Zero ELSE x

\* line 410: .loc[lambda x: x.index <= max_duration], max_duration None being +inf
WithinMaxDuration(t, max_duration) == max_duration = None \/ t <= max_duration[1]

\* lines 407-408: x[event]/x['expg'], then .fillna(0.), row by row
HazardRows(frame) ==
    [j \in DOMAIN frame |->
        [duration |-> frame[j].duration,
         h |-> Fillna0(PdDiv(frame[j].event, frame[j].expg))]]

\* the series of the rows kept (line 411)
SeriesOfRows(rows) ==
    Series([j \in DOMAIN rows |-> rows[j].duration], [j \in DOMAIN rows |-> rows[j].h])

\* lines 396-411
_compute_baseline_hazards(c, max_duration) ==
    SeriesOfRows(
        SelectSeq(Reverse(                                                  \* 409
                      HazardRows(                                           \* 407-408
                          RiskSetCumsum(Reverse(GroupByDuration(c))))),     \* 402-406
                  LAMBDA r : WithinMaxDuration(r.duration, max_duration)))  \* 410

(***************************************************************************)
(* CoxPHBase.partial_log_likelihood, cox.py lines 469-497.                 *)
(***************************************************************************)

\* line 489: the row orders .sort_values(duration, ascending=False) may
\* produce: pandas sorts with quicksort, which leaves the order within a
\* tie group open.  An order maps a position to the label of the row there.
DescendingOrders(c) ==
    {p \in Permutations(DOMAIN c) :
        \A i \in 1..(Len(c) - 1) : c[p[i]].duration >= c[p[i + 1]].duration}

MaxOf(S) == CHOOSE x \in S : \A y \in S : y <= x

\* lines 490-494: exp, cumsum, then the maximum within each duration group
CumExpGNoTransform(c, p) == IntCumsum([i \in DOMAIN c |-> NpExp(c[p[i]].g)])
CumExpG(c, p) ==
    LET cum == IntCumsum([i \in DOMAIN c |-> NpExp(c[p[i]].g)])
    IN  [i \in DOMAIN c |->
            MaxOf({cum[q] : q \in {q \in DOMAIN c : c[p[q]].duration = c[p[i]].duration}})]

\* g - np.log(d), kept symbolic: log is injective, so two terms are equal
\* exactly when their g and their d are
PllTerm(g, d) == [g |-> g, log_of |-> d]

\* lines 484-497; g_preds are the scores of the cohort's rows
partial_log_likelihood(c, p) ==
    LET cum  == CumExpG(c, p)
        rows == [i \in DOMAIN c |-> [row |-> p[i], event |-> c[p[i]].event,
                                     pll |-> PllTerm(c[p[i]].g, cum[i])]]
        kept == SelectSeq(rows, LAMBDA r : r.event = 1)            \* 495
    IN  [i \in DOMAIN kept |-> [row |-> kept[i].row, pll |-> kept[i].pll]]

(***************************************************************************)
(* The model object: CoxBase / CoxPHBase methods on self.  self is the     *)
(* pair of cached attributes; a method yields its status ("ok" or the      *)
(* exception raised), its return value and the attributes it leaves.       *)
(* The (input, target) arguments say which of the two is not None and     *)
(* hold the cohort rows they describe together; a baseline_hazards_        *)
(* argument is None ("none"), a series object of the caller ("series") or  *)
(* the very object self.baseline_hazards_ holds ("cached").                *)
(***************************************************************************)
NoCohort == [input |-> FALSE, target |-> FALSE, rows |-> <<>>]
Given(c) == [input |-> TRUE, target |-> TRUE, rows |-> c]
InputOnly == [input |-> TRUE, target |-> FALSE, rows |-> <<>>]
TargetOnly == [input |-> FALSE, target |-> TRUE, rows |-> <<>>]

NoCall == [op |-> "none"]

Self == [bh |-> baseline_hazards_, bch |-> baseline_cumulative_hazards_]

BNone == [kind |-> "none"]
BCached == [kind |-> "cached"]
BSeries(b) == [kind |-> "series", series |-> b]

Ok(out, self) == [status |-> "ok", out |-> out, self |-> self, warned |-> FALSE]
Raise(exc, self) == [status |-> exc, out |-> <<>>, self |-> self, warned |-> FALSE]

\* Index.is_monotonic_increasing: each entry >= the one before it
IsMonotonicIncreasing(index) == \A i \in 1..(Len(index) - 1) : index[i] <= index[i + 1]

\* Series.cumsum() on floats: the running sum; a NaN row stays NaN and is
\* skipped by the sum (skipna)
RECURSIVE PdCumsumFrom(_, _)
PdCumsumFrom(acc, s) ==
    IF s = <<>> THEN <<>>
    ELSE IF Head(s).k = "nan" THEN <<NaN>> \o PdCumsumFrom(acc, Tail(s))
    ELSE <<VAdd(acc, Head(s))>> \o PdCumsumFrom(VAdd(acc, Head(s)), Tail(s))

PdCumsumShifted(b) == Series(b.index, PdCumsumFrom(Zero, <<Zero>> \o SubSeq(b.vals, 1, Len(b.vals) - 1)))
PdCumsum(b) == Series(b.index, PdCumsumFrom(Zero, b.vals))

\* lines 97-99: the attributes after `if set_hazards:`
SetHazardsKeepCumulative(self, set_hazards, b, bch) ==
    IF set_hazards THEN [bh |-> b, bch |-> IF self.bch = NoAttr THEN bch ELSE self.bch]
    ELSE self
SetHazardsAlways(self, set_hazards, b, bch) == [bh |-> b, bch |-> bch]
SetHazards(self, set_hazards, b, bch) ==
    IF set_hazards THEN [bh |-> b, bch |-> bch] ELSE self

\* lines 97-100: cache when asked and return bch
SetAndReturn(self, set_hazards, b, bch) == Ok(bch, SetHazards(self, set_hazards, b, bch))

\* lines 92-100 of compute_baseline_cumulative_hazards, b the series in hand
CumulativeUnchecked(self, set_hazards, b) == SetAndReturn(self, set_hazards, b, PdCumsum(b))
CumulativeOfSeries(self, set_hazards, b) ==
    IF ~IsMonotonicIncreasing(b.index) THEN Raise("AssertionError", self)   \* 92-93
    ELSE SetAndReturn(self, set_hazards, b, PdCumsum(b))                    \* 94-100

\* line 67 after the call of line 66, whose outcome is r: an exception
\* propagates, otherwise base_haz is returned
KeepBaseHaz(base_haz, r) == IF r.status # "ok" THEN r ELSE Ok(base_haz, r.self)

\* lines 65-67 of compute_baseline_hazards, base_haz the series computed
ReturnBaseHaz(self, set_hazards, base_haz) ==
    IF ~set_hazards THEN Ok(base_haz, self)
    ELSE KeepBaseHaz(base_haz, CumulativeOfSeries(self, TRUE, base_haz))    \* 66

\* The sample argument: None, a number of rows (sample >= 1) or a
\* proportion num/den (sample < 1)
SNone == [kind |-> "none"]
SCount(n) == [kind |-> "n", n |-> n]
SFrac(num, den) == [kind |-> "frac", num |-> num, den |-> den]

\* round(num/den) as Python rounds: to the nearest, a half to the even side
RoundHalfEven(num, den) ==
    IF 2 * (num % den) < den THEN num \div den
    ELSE IF 2 * (num % den) > den THEN (num \div den) + 1
    ELSE (num \div den) + ((num \div den) % 2)

\* lines 59-62: the number of rows df.sample draws from len rows;
\* df.sample(frac=f) draws round(f * len)
SampleSize(len, sample) ==
    IF sample.kind = "n" THEN sample.n ELSE RoundHalfEven(sample.num * len, sample.den)

\* What the unseeded random generator of numpy yields to one call of
\* df.sample: an order of the row positions, of which the first are drawn
RngDraws ==
    {p \in [1..MaxCohort -> 1..MaxCohort] : \A i, j \in 1..MaxCohort : p[i] = p[j] => i = j}

\* the n rows drawn, without replacement, under the order rng
Drawn(rows, rng, n) == [j \in 1..n |-> rows[rng[j]]]

\* the order left unread by a call that draws no sample
NoDraw == [i \in 1..MaxCohort |-> i]

\* lines 58-63: the rows of df, and of input re-indexed by df.index.values
DfSample(rows, sample, rng) ==
    IF sample.kind = "none" THEN rows
    ELSE Drawn(rows, SelectSeq(rng, LAMBDA i : i <= Len(rows)), SampleSize(Len(rows), sample))

\* compute_baseline_hazards, lines 53-67.  The model object is never fitted
\* here, so it has no training_data attribute.
compute_baseline_hazards(self, c, max_duration, sample, set_hazards, rng) ==
    IF ~c.input /\ ~c.target THEN Raise("ValueError", self)                \* 53-55
    ELSE IF ~c.target
    THEN Raise("TypeError", self)      \* 57: tuplefy(None) cannot be unpacked
    ELSE IF sample.kind = "n" /\ sample.n > Len(c.rows)
    THEN Raise("ValueError", self)     \* 60: a larger sample than the population
    ELSE IF ~c.input
    THEN Raise("TypeError", self)      \* 63: tuplefy(None) cannot be indexed
    ELSE ReturnBaseHaz(self, set_hazards,
                       _compute_baseline_hazards(DfSample(c.rows, sample, rng),
                                                 max_duration))             \* 57-64

\* lines 89-100 after the call of lines 89-91, whose outcome is r: an
\* exception propagates, otherwise the series computed goes on
CumulativeOfOutcome(self, set_hazards, r) ==
    IF r.status # "ok" THEN r ELSE CumulativeOfSeries(self, set_hazards, r.out)

\* compute_baseline_cumulative_hazards, lines 87-100
CumulativeWithoutArgumentCheck(self, c, max_duration, sample, set_hazards, barg, rng) ==
    IF barg.kind = "none"
    THEN CumulativeOfOutcome(self, set_hazards,
                             compute_baseline_hazards(self, c, max_duration, sample, FALSE, rng))
    ELSE CumulativeOfSeries(self, set_hazards,
                            IF barg.kind = "cached" THEN self.bh ELSE barg.series)
compute_baseline_cumulative_hazards(self, c, max_duration, sample, set_hazards, barg, rng) ==
    IF (c.input \/ c.target) /\ barg.kind # "none" THEN Raise("ValueError", self)   \* 87-88
    ELSE IF barg.kind = "none"
         THEN CumulativeOfOutcome(self, set_hazards,                     \* 89-91
                  compute_baseline_hazards(self, c, max_duration, sample, FALSE, rng))
         ELSE CumulativeOfSeries(self, set_hazards,
                                 IF barg.kind = "cached" THEN self.bh ELSE barg.series)

\* The df argument of the _df methods: None, or a dataframe of the cohort
\* rows (covariates, duration and event columns)
DfNone == [given |-> FALSE, rows |-> <<>>]
Df(c) == [given |-> TRUE, rows |-> c]

\* CoxBase.compute_baseline_hazards_df, lines 321-325.  has_input_cols says
\* whether fit_df has set self.input_cols, which df_to_input reads (line
\* 257).  Line 324 calls compute_baseline_hazards_df itself, with six
\* positional arguments for its five parameters: the call raises TypeError
\* before the body runs again, whatever the arguments are.
compute_baseline_hazards_df(self, has_input_cols, df, max_duration, sample, set_hazards) ==
    IF df.given /\ ~has_input_cols THEN Raise("AttributeError", self)      \* 322-323
    ELSE Raise("TypeError", self)                                           \* 324-325

\* A DataFrame of predictions: its index and one row of values per index entry
Frame(index, rows) == [index |-> index, rows |-> rows]

\* bch.values.reshape(-1, 1).dot(expg): the outer product with exp(g(x))
OuterProduct(vals, x) ==
    [j \in DOMAIN vals |-> [i \in DOMAIN x |-> VMulInt(vals[j], NpExp(x[i]))]]

\* the rows of a series at the positions sel, in that order
TakeRows(b, sel) ==
    Series([j \in DOMAIN sel |-> b.index[sel[j]]], [j \in DOMAIN sel |-> b.vals[sel[j]]])

\* line 431 (and 410): series.loc[lambda x: x.index <= max_duration]
TruncateSeries(b, max_duration) ==
    TakeRows(b, SelectSeq([j \in DOMAIN b.index |-> j],
                          LAMBDA j : WithinMaxDuration(b.index[j], max_duration)))

\* lines 432-434: the frame of the outer product of bch and exp(g(x))
HazardFrame(bch, x, self) == Ok(Frame(bch.index, OuterProduct(bch.vals, x)), self)

\* lines 431-434 on the outcome r of lines 426-429: an exception propagates
HazardFrameOfOutcome(r, x, max_duration) ==
    IF r.status # "ok" THEN r
    ELSE HazardFrame(TruncateSeries(r.out, max_duration), x, r.self)

\* CoxPHBase._predict_cumulative_hazards, lines 425-434.  barg is "series"
\* or "cached"; `baseline_hazards_ is self.baseline_hazards_` reads the
\* attribute, which raises AttributeError when it was never set.
_predict_cumulative_hazards(self, x, max_duration, barg) ==
    IF self.bh = NoAttr THEN Raise("AttributeError", self)                  \* 426
    ELSE HazardFrameOfOutcome(                                              \* 431-434
             IF barg.kind = "cached" THEN Ok(self.bch, self)                \* 427
             ELSE compute_baseline_cumulative_hazards(self, NoCohort, None, SNone, FALSE, barg, NoDraw),  \* 429
             x, max_duration)

\* predict_cumulative_hazards, lines 120-128 (input is not a DataFrame).  A
\* caller can pass the cached object only when the attribute exists.
predict_cumulative_hazards(self, x, max_duration, barg) ==
    IF barg.kind = "none" /\ self.bh = NoAttr THEN Raise("ValueError", self)    \* 122-124
    ELSE IF ~IsMonotonicIncreasing(IF barg.kind = "series" THEN barg.series.index
                                   ELSE self.bh.index)                          \* 125-127
         THEN Raise("AssertionError", self)
         ELSE _predict_cumulative_hazards(self, x, max_duration,
                                          IF barg.kind = "none" THEN BCached ELSE barg)   \* 128

\* np.exp(-frame), kept symbolic
ExpNeg(frame) == [exp_neg |-> frame]

\* np.exp(-...) of a call whose outcome is r: an exception propagates
ExpNegOfOutcome(r) == IF r.status # "ok" THEN r ELSE [r EXCEPT !.out = ExpNeg(r.out)]

\* predict_survival_function, line 148
predict_survival_function(self, x, max_duration, barg) ==
    ExpNegOfOutcome(predict_cumulative_hazards(self, x, max_duration, barg))

\* lines 462-466: bch.iloc[times_idx] times exp(g(x)), indexed by times; s is
\* the outcome of search_sorted_idx
FrameAtTimes(bch, s, times, x, self) ==
    IF s.status # "ok" THEN Raise(s.status, self)
    ELSE [status |-> "ok", self |-> self, warned |-> s.warned,
          out |-> Frame(times,
                        OuterProduct([k \in DOMAIN times |-> bch.vals[s.idx[k] + 1]], x))]

\* lines 461-467 on the outcome r of lines 454-460: an exception propagates
FrameAtTimesOfOutcome(r, times, x) ==
    IF r.status # "ok" THEN r
    ELSE FrameAtTimes(r.out, search_sorted_idx(r.out.index, times), times, x, r.self)

\* CoxPHBase.predict_cumulative_hazards_at_times, lines 450-467 (return_df=True)
predict_cumulative_hazards_at_times(self, times, x, barg) ==
    FrameAtTimesOfOutcome(                                                      \* 461-467
        IF barg.kind = "none"
        THEN (IF self.bch = NoAttr THEN Raise("AttributeError", self)           \* 455
              ELSE Ok(self.bch, self))
        ELSE compute_baseline_cumulative_hazards(self, NoCohort, None, SNone, FALSE, barg, NoDraw),    \* 457
        times, x)

\* predict_survival_at_times, lines 170-171
predict_survival_at_times(self, times, x, barg) ==
    ExpNegOfOutcome(predict_cumulative_hazards_at_times(self, times, x, barg))

(***************************************************************************)
(* Persistence, cox.py lines 214-255.  A path or file name is a sequence   *)
(* of characters; the literal '_blh.pickle' is kept as one symbol.         *)
(***************************************************************************)
Dot == "."

\* str.split('.'): the pieces between the dots
RECURSIVE SplitDots(_, _)
SplitDots(piece, rest) ==
    IF rest = <<>> THEN <<piece>>
    ELSE IF Head(rest) = Dot THEN <<piece>> \o SplitDots(<<>>, Tail(rest))
    ELSE SplitDots(Append(piece, Head(rest)), Tail(rest))

Split(path) == SplitDots(<<>>, path)

\* lines 225-229 and 245-249: the path and the extension in use
Stem(path) == IF Len(Split(path)) > 1 THEN Split(path)[1] ELSE path
Extension(path) == IF Len(Split(path)) > 1 THEN Split(path)[2] ELSE <<"p", "t">>

\* line 230: super().save_net(path+extension)
SaveNetName(path) == Stem(path) \o Extension(path)
\* lines 250-251: extension = '.'+extension; super().load_net(path+extension)
LoadNetName(path) == Stem(path) \o <<Dot>> \o Extension(path)
\* lines 232 and 252: path+'_blh.pickle'
BlhName(path) == Stem(path) \o <<"_blh.pickle">>

NetFile == [kind |-> "net"]
PickleFile(b) == [kind |-> "pickle", series |-> b]
EmptyFiles == [n \in {} |-> NetFile]

\* lines 225-232
save_net(self, fs, path) ==
    LET net == (SaveNetName(path) :> NetFile) @@ fs                          \* 230
    IN  IF self.bh # NoAttr                                                  \* 231
        THEN (BlhName(path) :> PickleFile(self.bh)) @@ net                   \* 232
        ELSE net

\* lines 245-255: the attributes after the call; torch.load raises on a
\* missing file
load_net(self, fs, path) ==
    IF LoadNetName(path) \notin DOMAIN fs THEN Raise("FileNotFoundError", self)   \* 251
    ELSE IF BlhName(path) \in DOMAIN fs                                           \* 253
         THEN LET b == fs[BlhName(path)].series                                   \* 254
              IN  Ok(<<>>, [bh |-> b, bch |-> PdCumsum(b)])                       \* 255
         ELSE Ok(<<>>, self)

(***************************************************************************)
(* The inputs of the calls on the model object.                            *)
(***************************************************************************)
\* baseline hazard series a caller may pass: two with a strictly increasing
\* index, one with a decreasing index, one with a repeated duration
SampleSeries ==
    { Series(<<1, 2>>, <<Fin(1, 4), Fin(1, 2)>>),
      Series(<<2, 3>>, <<Fin(1, 2), Zero>>),
      Series(<<2, 1>>, <<Fin(1, 2), Fin(1, 4)>>),
      Series(<<1, 1>>, <<Fin(1, 4), Fin(1, 4)>>) }

\* The example cohort: durations [2,2,3], events [1,0,1], exp(g) [1,1,2]
ExampleCohort ==
    << [duration |-> 2, event |-> 1, g |-> 0],
       [duration |-> 2, event |-> 0, g |-> 0],
       [duration |-> 3, event |-> 1, g |-> 1] >>

SampleCohorts ==
    { ExampleCohort,
      << [duration |-> 1, event |-> 1, g |-> 1], [duration |-> 3, event |-> 0, g |-> 0] >> }

CohortArgs == {NoCohort, InputOnly, TargetOnly} \cup {Given(c) : c \in SampleCohorts}

DfArgs == {DfNone} \cup {Df(c) : c \in SampleCohorts}

SampleMaxDurations == {None, Some(2)}

\* sample=None, sample=2 and sample=0.5
SampleArgs == {SNone, SCount(2), SFrac(1, 2)}

\* the covariate rows of a prediction, given by the scores the net yields
SampleInputs == { <<0>>, <<0, 1>> }

SampleTimes == { <<0>>, <<2>>, <<1, 4>> }

\* 'm' and 'm.pt'
SamplePaths == { <<"m">>, <<"m", Dot, "p", "t">> }

\* the baseline_hazards_ arguments a caller can form in the current state
BArgs(D) ==
    {BNone} \cup {BSeries(b) : b \in D}
            \cup (IF baseline_hazards_ = NoAttr THEN {} ELSE {BCached})

\* all the series over durations 1..MaxDuration with at most MaxSeriesLen rows
UserValues == {Fin(-1, 2), Zero, Fin(1, 4), Fin(1, 2)}
UserSeries ==
    UNION { {Series(ix, vs) : ix \in [1..k -> 1..MaxDuration], vs \in [1..k -> UserValues]}
            : k \in 0..MaxSeriesLen }

(***************************************************************************)
(* The calls on the model object.  Calls are synchronous: one is made when *)
(* the outcome of the one before has been taken by the caller.  ret keeps  *)
(* the call, its status, its return value and whether it warned.           *)
(***************************************************************************)
Idle == ret = NoCall

Outcome(call, r) ==
    /\ ret' = call @@ [status |-> r.status, out |-> r.out, warned |-> r.warned]
    /\ baseline_hazards_' = r.self.bh
    /\ baseline_cumulative_hazards_' = r.self.bch

ComputeBaselineHazards ==
    /\ Idle
    /\ \E c \in CohortArgs, md \in SampleMaxDurations, sample \in SampleArgs,
          sh \in BOOLEAN, rng \in RngDraws :
          Outcome([op |-> "compute_baseline_hazards", cohort |-> c,
                   max_duration |-> md, sample |-> sample, set_hazards |-> sh],
                  compute_baseline_hazards(Self, c, md, sample, sh, rng))
    /\ UNCHANGED <<sq, sres, cohort, hres, files>>

ComputeBaselineCumulativeHazards(C, D, S) ==
    /\ Idle
    /\ \E c \in C, md \in SampleMaxDurations, sample \in S,
          sh \in BOOLEAN, barg \in BArgs(D), rng \in RngDraws :
          Outcome([op |-> "compute_baseline_cumulative_hazards", cohort |-> c,
                   max_duration |-> md, sample |-> sample, set_hazards |-> sh,
                   barg |-> barg],
                  compute_baseline_cumulative_hazards(Self, c, md, sample, sh, barg, rng))
    /\ UNCHANGED <<sq, sres, cohort, hres, files>>

PredictCumulativeHazards(D) ==
    /\ Idle
    /\ \E x \in SampleInputs, md \in SampleMaxDurations, barg \in BArgs(D) :
          Outcome([op |-> "predict_cumulative_hazards", input |-> x,
                   max_duration |-> md, barg |-> barg],
                  predict_cumulative_hazards(Self, x, md, barg))
    /\ UNCHANGED <<sq, sres, cohort, hres, files>>

PredictSurvivalFunction(D) ==
    /\ Idle
    /\ \E x \in SampleInputs, md \in SampleMaxDurations, barg \in BArgs(D) :
          Outcome([op |-> "predict_survival_function", input |-> x,
                   max_duration |-> md, barg |-> barg],
                  predict_survival_function(Self, x, md, barg))
    /\ UNCHANGED <<sq, sres, cohort, hres, files>>

PredictCumulativeHazardsAtTimes(D) ==
    /\ Idle
    /\ \E x \in SampleInputs, times \in SampleTimes, barg \in BArgs(D) :
          Outcome([op |-> "predict_cumulative_hazards_at_times", input |-> x,
                   times |-> times, barg |-> barg],
                  predict_cumulative_hazards_at_times(Self, times, x, barg))
    /\ UNCHANGED <<sq, sres, cohort, hres, files>>

PredictSurvivalAtTimes(D) ==
    /\ Idle
    /\ \E x \in SampleInputs, times \in SampleTimes, barg \in BArgs(D) :
          Outcome([op |-> "predict_survival_at_times", input |-> x,
                   times |-> times, barg |-> barg],
                  predict_survival_at_times(Self, times, x, barg))
    /\ UNCHANGED <<sq, sres, cohort, hres, files>>

ComputeBaselineHazardsDf ==
    /\ Idle
    /\ \E df \in DfArgs, fitted \in BOOLEAN, md \in SampleMaxDurations,
          sample \in SampleArgs, sh \in BOOLEAN :
          Outcome([op |-> "compute_baseline_hazards_df", df |-> df,
                   has_input_cols |-> fitted, max_duration |-> md,
                   sample |-> sample, set_hazards |-> sh],
                  compute_baseline_hazards_df(Self, fitted, df, md, sample, sh))
    /\ UNCHANGED <<sq, sres, cohort, hres, files>>

SaveNet ==
    /\ Idle
    /\ \E path \in SamplePaths :
          /\ files' = save_net(Self, files, path)
          /\ ret' = [op |-> "save_net", path |-> path, status |-> "ok",
                     out |-> <<>>, warned |-> FALSE]
    /\ UNCHANGED <<sq, sres, cohort, hres, baseline_hazards_, baseline_cumulative_hazards_>>

LoadNet ==
    /\ Idle
    /\ \E path \in SamplePaths :
          Outcome([op |-> "load_net", path |-> path], load_net(Self, files, path))
    /\ UNCHANGED <<sq, sres, cohort, hres, files>>

\* the caller takes the outcome of the call
Return ==
    /\ ~Idle
    /\ ret' = NoCall
    /\ UNCHANGED <<sq, sres, cohort, hres, baseline_hazards_, baseline_cumulative_hazards_, files>>

\* The model object after construction; a net file 'm.pt' written by other
\* means may lie in the directory.
Init ==
    /\ sq = NoCall
    /\ sres = NoCall
    /\ cohort = <<>>
    /\ hres = NoCall
    /\ baseline_hazards_ = NoAttr
    /\ baseline_cumulative_hazards_ = NoAttr
    /\ files \in {EmptyFiles, (<<"m", Dot, "p", "t">> :> NetFile) @@ EmptyFiles}
    /\ ret = NoCall

Next ==
    \/ ComputeBaselineHazards
    \/ ComputeBaselineCumulativeHazards(CohortArgs, SampleSeries, SampleArgs)
    \/ ComputeBaselineHazardsDf
    \/ PredictCumulativeHazards(SampleSeries)
    \/ PredictSurvivalFunction(SampleSeries)
    \/ PredictCumulativeHazardsAtTimes(SampleSeries)
    \/ PredictSurvivalAtTimes(SampleSeries)
    \/ SaveNet
    \/ LoadNet
    \/ Return

Spec == Init /\ [][Next]_vars

(***************************************************************************)
(* One call with a series of the caller, on a model object whose cache is  *)
(* empty or holds a series.                                                *)
(***************************************************************************)
InitSeries ==
    /\ sq = NoCall
    /\ sres = NoCall
    /\ cohort = <<>>
    /\ hres = NoCall
    /\ \E b \in {NoAttr, Series(<<1, 2>>, <<Fin(1, 4), Fin(1, 2)>>)} :
          /\ baseline_hazards_ = b
          /\ baseline_cumulative_hazards_ = IF b = NoAttr THEN NoAttr ELSE PdCumsum(b)
    /\ files = EmptyFiles
    /\ ret = NoCall

NextSeries ==
    \/ ComputeBaselineCumulativeHazards({NoCohort, TargetOnly}, UserSeries, {SNone})
    \/ PredictCumulativeHazards(UserSeries)

SpecSeries == InitSeries /\ [][NextSeries]_vars

(***************************************************************************)
(* The specification of the pure functions on cohorts and time axes:       *)
(* the inputs are drawn at Init, one call is made on them.                 *)
(***************************************************************************)

\* the risk scores of the subjects, in units of ln 2: exp(g) is 0, 1 or 2
RiskScores == {Underflow, 0, 1}
Subjects == [duration : 1..MaxDuration, event : {0, 1}, g : RiskScores]
Cohorts == SeqsUpTo(Subjects, MaxCohort)
MaxDurationArgs == {None} \cup {Some(t) : t \in 1..MaxDuration}


IdleModel ==
    /\ baseline_hazards_ = NoAttr
    /\ baseline_cumulative_hazards_ = NoAttr
    /\ files = EmptyFiles
    /\ ret = NoCall

InitSearch ==
    /\ sq \in [array : TimeAxes, values : QueryVectors]
    /\ sres = NoCall
    /\ cohort = <<>>
    /\ hres = NoCall
    /\ IdleModel

\* a call of search_sorted_idx(array, values)
SearchSortedIdx ==
    /\ sres = NoCall
    /\ sres' = [op |-> "search_sorted_idx"] @@ search_sorted_idx(sq.array, sq.values)
    /\ UNCHANGED <<sq, cohort, hres, baseline_hazards_, baseline_cumulative_hazards_, files, ret>>

NextSearch == SearchSortedIdx

SpecSearch == InitSearch /\ [][NextSearch]_vars

InitCohort ==
    /\ sq = NoCall
    /\ sres = NoCall
    /\ cohort \in Cohorts
    /\ hres = NoCall
    /\ IdleModel

\* a call of _compute_baseline_hazards(input, df_target, max_duration, batch_size)
ComputeBaselineHazardsOfCohort ==
    /\ hres = NoCall
    /\ \E md \in MaxDurationArgs :
          hres' = [op |-> "_compute_baseline_hazards", max_duration |-> md,
                   out |-> _compute_baseline_hazards(cohort, md)]
    /\ UNCHANGED <<sq, sres, cohort, baseline_hazards_, baseline_cumulative_hazards_, files, ret>>

\* a call of partial_log_likelihood(input, target)
PartialLogLikelihood ==
    /\ hres = NoCall
    /\ \E p \in DescendingOrders(cohort) :
          hres' = [op |-> "partial_log_likelihood", order |-> p,
                   out |-> partial_log_likelihood(cohort, p)]
    /\ UNCHANGED <<sq, sres, cohort, baseline_hazards_, baseline_cumulative_hazards_, files, ret>>

NextCohort == ComputeBaselineHazardsOfCohort \/ PartialLogLikelihood

SpecCohort == InitCohort /\ [][NextCohort]_vars

(***************************************************************************)
(* Claims on search_sorted_idx (specification SpecSearch).                 *)
(***************************************************************************)
SearchDone == sres.op = "search_sorted_idx"

Largest(array) == array[Len(array)]

\* C1 (as claimed): on a sorted array of distinct times, every query
\* strictly greater than the largest entry gets the last index, len(array)-1.
C1_AboveLargestGivesLastIndex ==
    (SearchDone /\ Len(sq.array) >= 1 /\ sres.status = "ok") =>
        \A k \in DOMAIN sq.values :
            sq.values[k] > Largest(sq.array) => sres.idx[k] = Len(sq.array) - 1

\* The 1-based position of the largest entry <= q, for q >= array[1]
LeftNeighbour(array, q) ==
    CHOOSE i \in DOMAIN array :
        /\ array[i] <= q
        /\ \A j \in DOMAIN array : array[j] <= q => j <= i

\* C2: on a sorted non-empty array of distinct times no error is raised;
\* every query q <= the largest entry gets the index of the largest entry
\* <= q (its own index when q is an entry), or 0 when q is below the
\* smallest entry; and when all queries are <= the largest entry a warning
\* is emitted exactly when some query is below the smallest entry.
C2_LeftNeighbourIndex ==
    (SearchDone /\ Len(sq.array) >= 1) =>
        /\ sres.status = "ok"
        /\ Len(sres.idx) = Len(sq.values)
        /\ \A k \in DOMAIN sq.values :
              sq.values[k] <= Largest(sq.array) =>
                  /\ sq.values[k] < sq.array[1] => sres.idx[k] = 0
                  /\ sq.values[k] >= sq.array[1] =>
                        sres.idx[k] + 1 = LeftNeighbour(sq.array, sq.values[k])
                  /\ \A i \in DOMAIN sq.array :
                        sq.array[i] = sq.values[k] => sres.idx[k] = i - 1
        /\ (\A k \in DOMAIN sq.values : sq.values[k] <= Largest(sq.array)) =>
              (sres.warned <=> \E k \in DOMAIN sq.values : sq.values[k] < sq.array[1])

\* C2 witness: on [1,3,5] the queries [0,4] (below the range, in between)
\* resolve to [0,1] with a warning
C2_Witness ==
    /\ SearchDone
    /\ sq.array = <<1, 3, 5>>
    /\ sq.values = <<0, 4>>
    /\ sres.idx = <<0, 1>>
    /\ sres.warned

(***************************************************************************)
(* Claims on the baseline hazard and the partial log-likelihood            *)
(* (specification SpecCohort).                                             *)
(***************************************************************************)
HazardsDone == hres.op = "_compute_baseline_hazards"
PllDone == hres.op = "partial_log_likelihood"

\* sum of exp(g_i) over all subjects with duration >= t
RiskSetDenominator(c, t) ==
    SumOver([i \in DOMAIN c |-> NpExp(c[i].g)], {i \in DOMAIN c : c[i].duration >= t})

\* number of events with duration t
EventsAt(c, t) ==
    SumOver([i \in DOMAIN c |-> c[i].event], {i \in DOMAIN c : c[i].duration = t})

\* C3: the series is keyed by exactly the distinct cohort durations
\* <= max_duration, ascending, and wherever the risk-set sum of exp(g) over
\* all subjects with duration >= t is not zero, its value at t is the number
\* of events at t divided by that sum.
C3_HazardSeries ==
    HazardsDone =>
        LET md  == hres.max_duration
            out == hres.out
        IN  /\ out.index = SortAsc({cohort[i].duration : i \in
                               {i \in DOMAIN cohort :
                                   md = None \/ cohort[i].duration <= md[1]}})
            /\ IsStrictlySorted(out.index)
            /\ Len(out.vals) = Len(out.index)
            /\ \A j \in DOMAIN out.index :
                  RiskSetDenominator(cohort, out.index[j]) # 0 =>
                      out.vals[j] = Fin(EventsAt(cohort, out.index[j]),
                                        RiskSetDenominator(cohort, out.index[j]))

\* C3 witness: the example cohort cut off at 2: the subject of duration 3
\* is still counted in the denominator 4 of duration 2
C3_Witness ==
    /\ HazardsDone
    /\ cohort = ExampleCohort
    /\ hres.max_duration = Some(2)
    /\ hres.out = Series(<<2>>, <<Fin(1, 4)>>)

\* C4 (as claimed): whenever the risk-set denominator at a duration t is
\* zero, the hazard at t is 0, whatever the number of events at t.
C4_ZeroDenominatorGivesZero ==
    HazardsDone =>
        \A j \in DOMAIN hres.out.index :
            RiskSetDenominator(cohort, hres.out.index[j]) = 0 =>
                hres.out.vals[j] = Zero

\* C10: the output has exactly one term per subject with event = 1 and none
\* for the others; the term of event subject i is g_i - log(D), D the sum of
\* exp(g_j) over the subjects with duration_j >= duration_i, which is the
\* denominator _compute_baseline_hazards forms at duration_i.
C10_PllTerms ==
    PllDone =>
        LET out   == hres.out
            frame == RiskSetCumsum(Reverse(GroupByDuration(cohort)))
        IN  /\ {out[i].row : i \in DOMAIN out} = {i \in DOMAIN cohort : cohort[i].event = 1}
            /\ Len(out) = Cardinality({i \in DOMAIN cohort : cohort[i].event = 1})
            /\ \A i \in DOMAIN out :
                  LET s == cohort[out[i].row]
                  IN  /\ out[i].pll = PllTerm(s.g, RiskSetDenominator(cohort, s.duration))
                      /\ \E j \in DOMAIN frame :
                            /\ frame[j].duration = s.duration
                            /\ frame[j].expg = out[i].pll.log_of

\* C10 witness: the example cohort sorted with the event of the tie group
\* before its censored subject: denominators 2 (duration 3) and 4 (duration 2)
C10_Witness ==
    /\ PllDone
    /\ cohort = ExampleCohort
    /\ hres.order = <<3, 1, 2>>
    /\ hres.out = << [row |-> 3, pll |-> PllTerm(1, 2)],
                     [row |-> 1, pll |-> PllTerm(0, 4)] >>

(***************************************************************************)
(* Claims on the cumulative hazard of a given series (SpecSeries).         *)
(***************************************************************************)
CumDone == ret.op = "compute_baseline_cumulative_hazards"

\* the sum of the first k values of a sequence of floats
RECURSIVE SumFirst(_, _)
SumFirst(vals, k) == IF k = 0 THEN Zero ELSE VAdd(SumFirst(vals, k - 1), vals[k])

PrefixSums(b) == Series(b.index, [k \in DOMAIN b.vals |-> SumFirst(b.vals, k)])

\* C5: compute_baseline_cumulative_hazards(baseline_hazards_=b) returns a
\* series with the index of b whose k-th value is the sum of the first k
\* values of b; differencing consecutive entries gives b back, and the
\* result is non-decreasing when no value of b is negative.
C5_CumulativeIsPrefixSum ==
    (CumDone /\ ret.barg.kind = "series" /\ ret.status = "ok") =>
        LET b   == ret.barg.series
            out == ret.out
        IN  /\ out.index = b.index
            /\ Len(out.vals) = Len(b.vals)
            /\ \A k \in DOMAIN b.vals : out.vals[k] = SumFirst(b.vals, k)
            /\ \A k \in DOMAIN b.vals :
                  VSub(out.vals[k], IF k = 1 THEN Zero ELSE out.vals[k - 1]) = b.vals[k]
            /\ (\A k \in DOMAIN b.vals : VLe(Zero, b.vals[k])) =>
                  \A k \in 1..(Len(out.vals) - 1) : VLe(out.vals[k], out.vals[k + 1])

\* C5 witness: hazards {2: 0.25, 3: 0.5} give H0(2) = 0.25, H0(3) = 0.75
C5_Witness ==
    /\ CumDone
    /\ ret.status = "ok"
    /\ ret.barg = BSeries(Series(<<2, 3>>, <<Fin(1, 4), Fin(1, 2)>>))
    /\ ret.out = Series(<<2, 3>>, <<Fin(1, 4), Fin(3, 4)>>)

GivenSeriesCall ==
    /\ ret.op \in {"compute_baseline_cumulative_hazards", "predict_cumulative_hazards"}
    /\ ret.barg.kind = "series"

PredictionOps ==
    {"predict_cumulative_hazards", "predict_survival_function",
     "predict_cumulative_hazards_at_times", "predict_survival_at_times"}

\* the matrix of a prediction made from the cumulative series bch
ExpectedPrediction(call, bch) ==
    LET full  == LET t == TruncateSeries(bch, call.max_duration)
                 IN  Frame(t.index, OuterProduct(t.vals, call.input))
        at    == LET s == search_sorted_idx(bch.index, call.times)
                 IN  Frame(call.times,
                           OuterProduct([k \in DOMAIN call.times |-> bch.vals[s.idx[k] + 1]],
                                        call.input))
    IN  CASE call.op = "predict_cumulative_hazards" -> full
          [] call.op = "predict_survival_function" -> ExpNeg(full)
          [] call.op = "predict_cumulative_hazards_at_times" -> at
          [] call.op = "predict_survival_at_times" -> ExpNeg(at)

\* C6: the model has both cached series or neither; the cached cumulative
\* series is the prefix sum of the cached baseline series; and a prediction
\* made without a baseline_hazards_ argument returns the matrix of the
\* series cached at that moment.
C6_CachedCumulativeIsPrefixSum ==
    /\ (baseline_hazards_ = NoAttr) <=> (baseline_cumulative_hazards_ = NoAttr)
    /\ baseline_hazards_ # NoAttr =>
          baseline_cumulative_hazards_ = PrefixSums(baseline_hazards_)
    /\ (ret.op \in PredictionOps /\ ret.barg = BNone /\ ret.status = "ok") =>
          /\ baseline_hazards_ # NoAttr
          /\ ret.out = ExpectedPrediction(ret, PrefixSums(baseline_hazards_))

\* C6 witness: a first series was cached and saved, a second one replaced
\* it, and the prediction without argument is the matrix of the second
C6_Witness ==
    /\ BlhName(<<"m">>) \in DOMAIN files
    /\ files[BlhName(<<"m">>)] = PickleFile(Series(<<1, 2>>, <<Fin(1, 4), Fin(1, 2)>>))
    /\ baseline_hazards_ = Series(<<2, 3>>, <<Fin(1, 2), Zero>>)
    /\ ret.op = "predict_cumulative_hazards"
    /\ ret.barg = BNone
    /\ ret.max_duration = None
    /\ ret.status = "ok"
    /\ ret.out = Frame(<<2, 3>>, << <<Fin(1, 2), Fin(1, 1)>>, <<Fin(1, 2), Fin(1, 1)>> >>)

\* C7 (as claimed): every prediction called without a baseline_hazards_
\* argument on a model that has no baseline hazard fails with the
\* ValueError 'Need to compute baseline_hazards_.' and returns nothing.
C7_UninitializedRaisesValueError ==
    (ret.op \in PredictionOps /\ ret.barg = BNone /\ baseline_hazards_ = NoAttr) =>
        /\ ret.status = "ValueError"
        /\ ret.out = <<>>

\* C9: compute_baseline_cumulative_hazards called with a baseline_hazards_
\* argument together with an input or a target that is not None raises the
\* ValueError, whatever set_hazards is, and leaves both cached series as
\* they were.
C9_SeriesWithCohortRejected ==
    [][ (CumDone' /\ ret'.barg.kind # "none" /\ (ret'.cohort.input \/ ret'.cohort.target)) =>
            /\ ret'.status = "ValueError"
            /\ ret'.out = <<>>
            /\ UNCHANGED <<baseline_hazards_, baseline_cumulative_hazards_>>
      ]_vars

\* C9 witness: the call with a series, a target alone and set_hazards=True
\* on a model without cached series raised ValueError and cached nothing
C9_Witness ==
    /\ CumDone
    /\ ret.barg.kind = "series"
    /\ ret.cohort = TargetOnly
    /\ ret.set_hazards
    /\ ret.status = "ValueError"
    /\ baseline_hazards_ = NoAttr
    /\ baseline_cumulative_hazards_ = NoAttr

(***************************************************************************)
(* Claims on the calls that are not to touch the cache (Spec).             *)
(***************************************************************************)
\* the call in ret is one that is not to write the cached series
QuietCall ==
    \/ /\ ret.op \in {"compute_baseline_hazards", "compute_baseline_cumulative_hazards"}
       /\ ~ret.set_hazards
    \/ ret.op \in PredictionOps

\* the caches a model object may hold when a call is repeated
OtherCaches ==
    {[bh |-> NoAttr, bch |-> NoAttr]} \cup
    {[bh |-> b, bch |-> PrefixSums(b)] : b \in {x \in SampleSeries : IsSorted(x.index)}}

\* the baseline_hazards_ argument of a call as a value: the cached object is
\* the series the cache held at the call
ArgByValue(barg, bh) == IF barg.kind = "cached" THEN BSeries(bh) ELSE barg

\* the call of compute_baseline_cumulative_hazards recorded in call, made
\* again with set_hazards=False on the cache s under the draw rng, has the
\* outcome recorded in call
RepeatedCallAgrees(call, bh, s, rng) ==
    LET r == compute_baseline_cumulative_hazards(s, call.cohort, call.max_duration,
                                                 call.sample, FALSE,
                                                 ArgByValue(call.barg, bh), rng)
    IN  r.status = call.status /\ r.out = call.out

\* C11 (as claimed): a call with set_hazards=False and every prediction
\* leaves both cached series as they were, and the outcome of
\* compute_baseline_cumulative_hazards with set_hazards=False is the one
\* every other call with the same arguments has, whatever the cache holds
\* by then.
C11_QuietCallsRepeatable ==
    [][ /\ QuietCall' => UNCHANGED <<baseline_hazards_, baseline_cumulative_hazards_>>
        /\ (CumDone' /\ ~ret'.set_hazards) =>
              \A s \in OtherCaches, rng \in RngDraws :
                  RepeatedCallAgrees(ret', baseline_hazards_', s, rng)
      ]_vars

\* C11 (amended): a call with set_hazards=False and every prediction leaves
\* both cached series as they were, and the outcome of
\* compute_baseline_cumulative_hazards with set_hazards=False and
\* sample=None, or with a baseline_hazards_ argument, is the one every other
\* call with the same arguments has, whatever the cache holds by then.
C11_QuietCallsRepeatableUnsampled ==
    [][ /\ QuietCall' => UNCHANGED <<baseline_hazards_, baseline_cumulative_hazards_>>
        /\ (CumDone' /\ ~ret'.set_hazards
                /\ (ret'.sample = SNone \/ ret'.barg.kind # "none")) =>
              \A s \in OtherCaches, rng \in RngDraws :
                  RepeatedCallAgrees(ret', baseline_hazards_', s, rng)
      ]_vars

\* C11 witness: with the series [1/4, 1/2] cached, the cumulative hazards of
\* the example cohort were computed with set_hazards=False and sample=None;
\* the cache still holds its series
C11_Witness ==
    /\ CumDone
    /\ ~ret.set_hazards
    /\ ret.sample = SNone
    /\ ret.barg = BNone
    /\ ret.cohort = Given(ExampleCohort)
    /\ ret.max_duration = None
    /\ ret.status = "ok"
    /\ ret.out = Series(<<2, 3>>, <<Fin(1, 4), Fin(3, 4)>>)
    /\ baseline_hazards_ = Series(<<1, 2>>, <<Fin(1, 4), Fin(1, 2)>>)
    /\ baseline_cumulative_hazards_ = Series(<<1, 2>>, <<Fin(1, 4), Fin(3, 4)>>)

(***************************************************************************)
(* Claims on compute_baseline_hazards_df (Spec).                           *)
(***************************************************************************)
\* C12 (as claimed): compute_baseline_hazards_df called with a dataframe
\* returns, and what it returns and what it leaves in the cache are what
\* compute_baseline_hazards called in the same state with the dataframe's
\* covariates as input and its (duration, event) columns as target returns
\* and leaves, for some draw of the sample.
C12_DfSameAsComputeBaselineHazards ==
    [][ (ret'.op = "compute_baseline_hazards_df" /\ ret'.df.given) =>
            \E rng \in RngDraws :
                LET r == compute_baseline_hazards(Self, Given(ret'.df.rows),
                                                  ret'.max_duration, ret'.sample,
                                                  ret'.set_hazards, rng)
                IN  /\ ret'.status = r.status
                    /\ ret'.out = r.out
                    /\ baseline_hazards_' = r.self.bh
                    /\ baseline_cumulative_hazards_' = r.self.bch
      ]_vars

(***************************************************************************)
(* Claims on predictions from a series of the caller (Spec).               *)
(***************************************************************************)
\* C13 (as claimed): predict_cumulative_hazards called with a series b of
\* the caller whose index is sorted returns, whatever the cache holds and
\* also when the model has no cached baseline hazard, the matrix whose rows
\* are the durations of b within max_duration and whose entry (t, i) is the
\* prefix sum of b at t times exp(g(x_i)).
C13_SuppliedSeriesPredicts ==
    (/\ ret.op = "predict_cumulative_hazards"
     /\ ret.barg.kind = "series"
     /\ IsSorted(ret.barg.series.index)) =>
        /\ ret.status = "ok"
        /\ ret.out = ExpectedPrediction(ret, PrefixSums(ret.barg.series))

(***************************************************************************)
(* Claims on save_net and load_net (Spec).                                 *)
(***************************************************************************)
\* C14 (as claimed): when save_net(path) has returned, load_net(path) reads
\* the net from the file name save_net wrote it to, and leaves the model
\* with the baseline series cached at the save and with its prefix sum as
\* the cumulative series.
C14_SaveThenLoadRoundTrip ==
    ret.op = "save_net" =>
        /\ LoadNetName(ret.path) = SaveNetName(ret.path)
        /\ load_net(Self, files, ret.path).status = "ok"
        /\ load_net(Self, files, ret.path).self.bh = baseline_hazards_
        /\ baseline_hazards_ # NoAttr =>
              load_net(Self, files, ret.path).self.bch = PrefixSums(baseline_hazards_)

====
